---- MODULE Spec2Model ----
(***************************************************************************)
(* Model of the pattern-analysis and validation scripts of the lottery     *)
(* newsletter repository: the walk-forward validators of                   *)
(* validate_methods.py, the pool builders of generate_newsletter.py, the   *)
(* pool audit of audit_pools.py, the draw store of update_data.py and the  *)
(* validation run (main) of validate_methods.py.                           *)
(*                                                                         *)
(* The validators are pure functions of a newest-first list of draws.      *)
(* Each is an operator computed the way the code computes it; an action    *)
(* applies one of them to the draws chosen by Init and records the call    *)
(* (op, args) and what it returned (res).  Python list indices are kept    *)
(* 0-based in everything a result reports; draws[k + 1] is Python's        *)
(* draws[k].                                                               *)
(*                                                                         *)
(* The two scripts that work on the data directory are state machines of   *)
(* their own: SpecStore is a run of update_data.py (update_lottery for     *)
(* each lottery, then update_jackpots), SpecMain a run of the main() of    *)
(* validate_methods.py (one loop iteration per lottery, then the save).    *)
(* files is the data directory, pc the position of the running script and  *)
(* results the results dict of the validation run.                         *)
(*                                                                         *)
(* Three more machines cover the publishing side: SpecPublish is a run of  *)
(* auto_publish.py (procs holds the child processes it starts), SpecSend a *)
(* run of send_to_subscribers.py (outbox holds the mails it attempts) and  *)
(* SpecClock applies get_next_draw_info of generate_newsletter.py to every *)
(* weekday and hour of the Central-Time clock.                             *)
(***************************************************************************)
EXTENDS Integers, Sequences, FiniteSets, TLC

VARIABLES draws, op, args, res, files, pc, results, procs, outbox

vars == <<draws, op, args, res, files, pc, results, procs, outbox>>

-----------------------------------------------------------------------------
(* Bounds of the model *)

\* draw lists of 0..MaxSmall draws are explored next to the lists around MinDraws
MaxSmall == 2
\* shortest and longest long list: MinDraws - Below .. MinDraws + Above
Below == 1
Above == 2
\* the draw lists start at ticket 1 + off of the table, off in 0..MaxOff
MaxOff == 1
\* the draws of a lottery have the dates 1..MaxDate (days, oldest first)
MaxDate == 3
\* at most MaxResults sources of an update deliver a result
MaxResults == 2

(* Program constants *)

\* the sample-size guard of every validator
MinDraws == 100
\* pick count: sorted slots 0..4 of a draw
MainCount == 5
\* generate_position_pools keeps most_common(8)
PositionPoolSize == 8
\* default window of generate_position_pools / generate_bonus_pool
DefaultWindow == 400
\* default top_n of generate_bonus_pool
BonusTopN == 5
\* defaults of validate_hot_numbers
HotWindow == 20
HotPoolSize == 10
\* the occurrence count that proves a 3-combo
MinOccurrence == 2
\* the L4L constraint values written into validate_constraints
SumLo == 65
SumHi == 175
MinDecades == 3
MaxConsecutive == 1
OddLo == 2
OddHi == 3
\* the default pool_size of validate_position_frequency
DefaultPoolSize == 8
\* main's baselines: a pool of 8 for the position pools, of 10 for the hot pool
BaselinePool == 8
HotBaselinePool == 10
\* the 3-combos of a ticket: expected_random = 10 * proven_ratio
CombosPerTicket == 10
\* analyze_lottery reports the top 8 of a position and the top 5 bonus numbers
AuditPoolSize == 8
AuditBonusSize == 5
\* LOTTERY_CONFIG['l4l']['constraints']: high_range and high_threshold
HighLo == 2
HighHi == 3
HighThreshold == 25

-----------------------------------------------------------------------------
(* Python helpers *)

Min(a, b) == IF a <= b THEN a ELSE b
Max(a, b) == IF a >= b THEN a ELSE b

\* the elements of a sequence
Range(s) == {s[j] : j \in 1..Len(s)}

\* a list given entry by entry, built once
List(f) == f \o <<>>

\* sum of the entries lo..hi of a sequence of integers, by halves
RECURSIVE SumRange(_, _, _)
SumRange(s, lo, hi) ==
    IF lo > hi THEN 0
    ELSE IF lo = hi THEN s[lo]
    ELSE LET mid == (lo + hi) \div 2
         IN  SumRange(s, lo, mid) + SumRange(s, mid + 1, hi)

\* sum(list)
SumSeq(s) == SumRange(s, 1, Len(s))

\* sorted(list): ascending insertion sort
RECURSIVE InsertSorted(_, _)
InsertSorted(s, x) ==
    IF s = <<>> THEN <<x>>
    ELSE IF x < Head(s) THEN <<x>> \o s
    ELSE <<Head(s)>> \o InsertSorted(Tail(s), x)

RECURSIVE sorted(_)
sorted(s) == IF s = <<>> THEN <<>> ELSE InsertSorted(sorted(Tail(s)), Head(s))

\* the 0-based indices selected by the slice [lo:hi] of a list of n elements
\* (lo, hi >= 0; Python clamps both to n)
SliceIdx(n, lo, hi) ==
    LET a == Min(lo, n)
        b == Min(hi, n)
    IN  List([j \in 1..Max(0, b - a) |-> a + j - 1])

\* int(len(draws) * train_ratio) for a ratio num/den: the float product of the
\* ratios of Ratios truncates to the exact floor
SplitIdx(n, train_ratio) == (n * train_ratio.num) \div train_ratio.den

\* a / b without the test of b: the quotient has no value when b is 0
Rate_unguarded(a, b) == [num |-> a, den |-> b]
\* a / b if b > 0 else 0, kept as an exact fraction
Rate(a, b) == IF b > 0 THEN [num |-> a, den |-> b] ELSE [num |-> 0, den |-> 1]

\* f"{x:.2f}" of a fraction x >= 0, as the number of hundredths printed: the
\* nearest hundredth, a value halfway between two going to the even one
fmt2f(x) ==
    LET rest == x.num % x.den
        q == (x.num \div x.den) * 100 + (rest * 100) \div x.den
        r == (rest * 100) % x.den
    IN  IF 2 * r < x.den THEN q
        ELSE IF 2 * r > x.den THEN q + 1
        ELSE IF q % 2 = 0 THEN q ELSE q + 1

\* collections.Counter after counter[num] += 1 for every num of nums, as the
\* <<number, count>> pairs in insertion order: a number is inserted where it
\* first occurs and counts its occurrences
Counter(nums) ==
    LET IsFirst(j) == \A k \in 1..(j - 1) : nums[k] # nums[j]
        firsts == SelectSeq([j \in 1..Len(nums) |-> j], IsFirst)
    IN  List([r \in 1..Len(firsts) |->
            LET num == nums[firsts[r]]
            IN  <<num, Cardinality({k \in 1..Len(nums) : nums[k] = num})>>])

\* index of the entry of c with the smallest number among those holding the
\* largest count
FirstMax_asc(c) ==
    CHOOSE j \in 1..Len(c) :
        /\ \A k \in 1..Len(c) : c[k][2] <= c[j][2]
        /\ \A k \in 1..Len(c) : c[k][2] = c[j][2] => c[j][1] <= c[k][1]
\* index of the first entry of c holding the largest count
FirstMax(c) ==
    CHOOSE j \in 1..Len(c) :
        /\ \A k \in 1..Len(c) : c[k][2] <= c[j][2]
        /\ \A k \in 1..(j - 1) : c[k][2] < c[j][2]

RemoveAt(s, j) == SubSeq(s, 1, j - 1) \o SubSeq(s, j + 1, Len(s))

\* Counter.most_common(n): the n entries with the largest counts, largest
\* first; entries with equal counts stay in insertion order
RECURSIVE most_common(_, _)
most_common(c, n) ==
    IF n <= 0 \/ c = <<>> THEN <<>>
    ELSE LET j == FirstMax(c)
         IN  <<c[j]>> \o most_common(RemoveAt(c, j), n - 1)

\* [num for num, _ in pairs]
Nums(pairs) == [j \in 1..Len(pairs) |-> pairs[j][1]]
\* [c for _, c in pairs]
Counts(pairs) == [j \in 1..Len(pairs) |-> pairs[j][2]]

-----------------------------------------------------------------------------
(* The draws *)

\* main numbers and bonus of the draws the lists are made of; a bonus of 0 is
\* a missing bonus.  load_draws returns the draws of the data file as they
\* are: a draw may hold fewer than five numbers, or the same number twice
Tickets ==
    << [main |-> <<3, 14, 22, 31, 44>>, bonus |-> 2],
       [main |-> <<1, 13, 25, 37, 47>>, bonus |-> 5],
       [main |-> <<44, 3, 31, 14, 22>>, bonus |-> 2],
       [main |-> <<1, 2, 3, 4, 5>>, bonus |-> 1],
       [main |-> <<5, 14, 22, 31>>, bonus |-> 3],
       [main |-> <<>>, bonus |-> 0],
       [main |-> <<2, 14, 22, 30, 44>>, bonus |-> 4],
       [main |-> <<8, 14, 26, 31, 44>>, bonus |-> 6],
       [main |-> <<9, 14, 22, 23, 44>>, bonus |-> 7],
       [main |-> <<4, 15, 26, 37, 48>>, bonus |-> 8],
       [main |-> <<6, 17, 28, 39, 40>>, bonus |-> 9],
       [main |-> <<7, 18, 29, 30, 41>>, bonus |-> 10],
       [main |-> <<5, 5, 12, 30, 41>>, bonus |-> 3] >>

\* lengths of the draw lists
Lens == (0..MaxSmall) \cup ((MinDraws - Below)..(MinDraws + Above))

\* the numbers of tickets a draw list cycles through
Cycles == {1, 2, 3, 6, 12, 13}

\* a newest-first list of n draws with pairwise distinct dates (day numbers),
\* cycling through the first m tickets starting after the first off
MakeDraws(n, m, off) ==
    [i \in 1..n |->
        LET t == Tickets[((i - 1 + off) % m) + 1]
        IN  [date |-> n - i + 1, main |-> t.main, bonus |-> t.bonus]]

\* the draws of a lottery with 8 main numbers and 5 bonus numbers
MiniTickets ==
    << [main |-> <<1, 2, 3, 4, 5>>, bonus |-> 1],
       [main |-> <<2, 3, 5, 7, 8>>, bonus |-> 2],
       [main |-> <<1, 4, 6, 7, 8>>, bonus |-> 3],
       [main |-> <<3, 4, 5, 6, 7>>, bonus |-> 4],
       [main |-> <<1, 2, 6, 7, 8>>, bonus |-> 5] >>

\* a newest-first list of n draws of that lottery
MakeMiniDraws(n) ==
    [i \in 1..n |->
        LET t == MiniTickets[((i - 1) % Len(MiniTickets)) + 1]
        IN  [date |-> n - i + 1, main |-> t.main, bonus |-> t.bonus]]

\* a newest-first list of n draws that hold no main numbers
MakeEmptyDraws(n) == [i \in 1..n |-> [date |-> n - i + 1, main |-> <<>>, bonus |-> 0]]

\* draw.get('main', []) of Python's draws[k]
MainOf(ds, k) == ds[k + 1].main

\* the train_ratio values explored, as exact fractions
Ratios == {[num |-> k, den |-> 10] : k \in {0, 2, 5, 8, 10}}
DefaultRatio == [num |-> 8, den |-> 10]

None == [kind |-> "None"]

-----------------------------------------------------------------------------
(* validate_methods.py *)

\* the values tallied for sorted slot p (1-based) over the draws at idxs:
\* for draw in ...: main_nums = sorted(draw.get('main', []));
\*   for i, num in enumerate(main_nums): if i < main_count: counters[i][num] += 1
PositionValues(ds, idxs, p) ==
    LET HasSlot(k) == p <= Len(MainOf(ds, k))
        with == SelectSeq(idxs, HasSlot)
    IN  List([j \in 1..Len(with) |-> sorted(MainOf(ds, with[j]))[p]])

\* position_pools = [Counter() for _ in range(main_count)], filled from idxs
PositionCounters(ds, idxs, main_count) ==
    List([p \in 1..main_count |-> Counter(PositionValues(ds, idxs, p))])

\* train_draws = draws[split_idx + 1:]: the first training draw is dropped
TrainSlice_skip(n, split_idx) == SliceIdx(n, split_idx + 1, n)
\* train_draws = draws[:len(draws) - split_idx]: the list read as oldest-first
TrainSlice_newest(n, split_idx) == SliceIdx(n, 0, n - split_idx)
\* train_draws = draws[split_idx:] as indices
TrainSlice(n, split_idx) == SliceIdx(n, split_idx, n)
\* test_draws = draws[:split_idx] as indices
TestSlice(n, split_idx) == SliceIdx(n, 0, split_idx)

position_frequency_body(ds, train_ratio, pool_size) ==
    LET n == Len(ds)
        split_idx == SplitIdx(n, train_ratio)
        train_draws == TrainSlice(n, split_idx)
        test_draws == TestSlice(n, split_idx)
        position_pools == PositionCounters(ds, train_draws, MainCount)
        pools == List([p \in 1..MainCount |->
                    Range(Nums(most_common(position_pools[p], pool_size)))])
        \* per test draw: the slots i < 5 of its sorted numbers, and those in pools[i]
        per_draw == List([j \in 1..Len(test_draws) |->
                        LET main_nums == sorted(MainOf(ds, test_draws[j]))
                            slots == 1..Min(Len(main_nums), MainCount)
                        IN  [total |-> Cardinality(slots),
                             hits |-> Cardinality({p \in slots : main_nums[p] \in pools[p]})]])
        hits == SumSeq([j \in 1..Len(test_draws) |-> per_draw[j].hits])
        total == SumSeq([j \in 1..Len(test_draws) |-> per_draw[j].total])
    IN  [kind |-> "result",
         train_size |-> Len(train_draws),
         test_size |-> Len(test_draws),
         hits |-> hits,
         total |-> total,
         accuracy |-> Rate(hits, total),
         \* what the run used: the slices, the tallies, the pools, and for
         \* every test draw the draws its pools were built from
         train_idx |-> Range(train_draws),
         test_idx |-> Range(test_draws),
         position_pools |-> position_pools,
         pools |-> pools,
         uses |-> [k \in Range(test_draws) |-> Range(train_draws)]]

validate_position_frequency(ds, train_ratio, pool_size) ==
    IF Len(ds) < MinDraws THEN None
    ELSE position_frequency_body(ds, train_ratio, pool_size)

\* the main numbers of the draws at idxs, in list order
RECURSIVE FlattenRange(_, _, _, _)
FlattenRange(ds, idxs, lo, hi) ==
    IF lo > hi THEN <<>>
    ELSE IF lo = hi THEN MainOf(ds, idxs[lo])
    ELSE LET mid == (lo + hi) \div 2
         IN  FlattenRange(ds, idxs, lo, mid) \o FlattenRange(ds, idxs, mid + 1, hi)

Flatten(ds, idxs) == FlattenRange(ds, idxs, 1, Len(idxs))

\* history = draws[i:i+window]: the window starts at the test draw itself
HotHistory_self(n, i, window) == SliceIdx(n, i, i + window)
\* history = draws[i+1:i+1+window] as indices
HotHistory(n, i, window) == SliceIdx(n, i + 1, i + 1 + window)

\* if i + window > len(draws): break
HotBreak_late(n, i, window) == i + window > n
\* if i + window >= len(draws): break
HotBreak(n, i, window) == i + window >= n

\* if i + window >= len(test_draws): break
HotIterations_test(n, test_draws, window) ==
    LET breaks == {i \in 0..(Len(test_draws) - 1) : HotBreak(Len(test_draws), i, window)}
    IN  IF breaks = {} THEN Len(test_draws)
        ELSE CHOOSE i \in breaks : \A b \in breaks : i <= b
\* the number of iterations of the loop over enumerate(test_draws) that run
\* to their end: the loop stops at the first i that breaks
HotIterations(n, test_draws, window) ==
    LET breaks == {i \in 0..(Len(test_draws) - 1) : HotBreak(n, i, window)}
    IN  IF breaks = {} THEN Len(test_draws)
        ELSE CHOOSE i \in breaks : \A b \in breaks : i <= b

\* one record per test draw the loop scores, in loop order
HotScored(ds, test_draws, window, pool_size) ==
    List([j \in 1..HotIterations(Len(ds), test_draws, window) |->
        LET i == j - 1
            history == HotHistory(Len(ds), i, window)
            num_counter == Counter(Flatten(ds, history))
            hot_pool == Range(Nums(most_common(num_counter, pool_size)))
            main == MainOf(ds, test_draws[i + 1])
        IN  [i |-> i,
             history |-> history,
             hot_pool |-> hot_pool,
             total |-> Len(main),
             hits |-> Cardinality({q \in 1..Len(main) : main[q] \in hot_pool})]])

hot_numbers_body(ds, train_ratio, window, pool_size) ==
    LET n == Len(ds)
        split_idx == SplitIdx(n, train_ratio)
        test_draws == TestSlice(n, split_idx)
        scored == HotScored(ds, test_draws, window, pool_size)
        hits == SumSeq([j \in 1..Len(scored) |-> scored[j].hits])
        total == SumSeq([j \in 1..Len(scored) |-> scored[j].total])
    IN  [kind |-> "result",
         test_size |-> Len(test_draws),
         window |-> window,
         pool_size |-> pool_size,
         hits |-> hits,
         total |-> total,
         accuracy |-> Rate(hits, total),
         \* what the run used
         test_idx |-> Range(test_draws),
         scored |-> {scored[j].i : j \in 1..Len(scored)},
         history |-> [k \in {scored[j].i : j \in 1..Len(scored)} |->
                        scored[k + 1].history],
         uses |-> [k \in {scored[j].i : j \in 1..Len(scored)} |->
                        Range(scored[k + 1].history)]]

validate_hot_numbers(ds, train_ratio, window, pool_size) ==
    IF Len(ds) < MinDraws THEN None
    ELSE hot_numbers_body(ds, train_ratio, window, pool_size)

\* repeat_count = len(current | previous): the union taken for the intersection
repeat_pattern_body_union(ds) ==
    LET n == Len(ds)
        pairs == List([i \in 1..(n - 1) |->
                    LET current == Range(MainOf(ds, i - 1))
                        previous == Range(MainOf(ds, i))
                    IN  [repeat_count |-> Cardinality(current \cup previous),
                         size |-> Cardinality(current)]])
        repeats == SumSeq([i \in 1..(n - 1) |-> pairs[i].repeat_count])
        total == SumSeq([i \in 1..(n - 1) |-> pairs[i].size])
    IN  [kind |-> "result",
         draws_checked |-> n - 1,
         total_numbers |-> total,
         repeats |-> repeats,
         repeat_rate |-> Rate(repeats, total)]
repeat_pattern_body(ds) ==
    LET n == Len(ds)
        pairs == List([i \in 1..(n - 1) |->
                    LET current == Range(MainOf(ds, i - 1))
                        previous == Range(MainOf(ds, i))
                    IN  [repeat_count |-> Cardinality(current \cap previous),
                         size |-> Cardinality(current)]])
        repeats == SumSeq([i \in 1..(n - 1) |-> pairs[i].repeat_count])
        total == SumSeq([i \in 1..(n - 1) |-> pairs[i].size])
    IN  [kind |-> "result",
         draws_checked |-> n - 1,
         total_numbers |-> total,
         repeats |-> repeats,
         repeat_rate |-> Rate(repeats, total)]

validate_repeat_pattern(ds) ==
    IF Len(ds) < MinDraws THEN None ELSE repeat_pattern_body(ds)

\* the position triples a < b < c of a tuple of len entries, in the
\* lexicographic order itertools.combinations yields them
\* itertools.combinations_with_replacement: a <= b <= c
PosTriples_repl(len) ==
    LET all == [x \in 1..(len * len * len) |->
                    <<((x - 1) \div (len * len)) + 1,
                      (((x - 1) \div len) % len) + 1,
                      ((x - 1) % len) + 1>>]
        Increasing(t) == t[1] <= t[2] /\ t[2] <= t[3]
    IN  SelectSeq(all, Increasing)
PosTriples(len) ==
    LET all == [x \in 1..(len * len * len) |->
                    <<((x - 1) \div (len * len)) + 1,
                      (((x - 1) \div len) % len) + 1,
                      ((x - 1) % len) + 1>>]
        Increasing(t) == t[1] < t[2] /\ t[2] < t[3]
    IN  SelectSeq(all, Increasing)

\* list(itertools.combinations(main, 3))
combinations(main) ==
    LET triples == PosTriples(Len(main))
    IN  List([q \in 1..Len(triples) |->
            <<main[triples[q][1]], main[triples[q][2]], main[triples[q][3]]>>])

\* how many entries of a list of combos equal combo
TimesIn(combos, combo) == Cardinality({q \in 1..Len(combos) : combos[q] = combo})

proven_combos_body(ds, train_ratio) ==
    LET n == Len(ds)
        split_idx == SplitIdx(n, train_ratio)
        train_draws == TrainSlice(n, split_idx)
        test_draws == TestSlice(n, split_idx)
        \* combinations(tuple(sorted(draw.get('main', []))), 3) of every training draw
        train_combos == List([j \in 1..Len(train_draws) |->
                            combinations(sorted(MainOf(ds, train_draws[j])))])
        combos == UNION {Range(train_combos[j]) : j \in 1..Len(train_draws)}
        \* combo_counts[combo] += 1 for every combination of every training draw
        combo_counts == [c \in combos |->
            SumSeq([j \in 1..Len(train_draws) |-> TimesIn(train_combos[j], c)])]
        proven_combos == {c \in combos : combo_counts[c] >= MinOccurrence}
        per_draw == List([j \in 1..Len(test_draws) |->
                        LET main == sorted(MainOf(ds, test_draws[j]))
                            draw_combos == combinations(main)
                        IN  [possible |-> Len(draw_combos),
                             hits |-> Cardinality({q \in 1..Len(draw_combos) :
                                         draw_combos[q] \in proven_combos})]])
        draws_with_proven == Cardinality({j \in 1..Len(test_draws) : per_draw[j].hits > 0})
        total_proven_hits == SumSeq([j \in 1..Len(test_draws) |-> per_draw[j].hits])
        total_possible_combos == SumSeq([j \in 1..Len(test_draws) |-> per_draw[j].possible])
    IN  [kind |-> "result",
         train_size |-> Len(train_draws),
         test_size |-> Len(test_draws),
         proven_combos_in_pool |-> Cardinality(proven_combos),
         draws_with_proven_combo |-> draws_with_proven,
         draw_rate |-> Rate(draws_with_proven, Len(test_draws)),
         total_proven_hits |-> total_proven_hits,
         total_possible_combos |-> total_possible_combos,
         combo_hit_rate |-> Rate(total_proven_hits, total_possible_combos),
         \* what the run used
         train_idx |-> Range(train_draws),
         test_idx |-> Range(test_draws),
         proven_combos |-> proven_combos,
         uses |-> [k \in Range(test_draws) |-> Range(train_draws)]]

validate_proven_combos(ds, train_ratio) ==
    IF Len(ds) < MinDraws THEN None ELSE proven_combos_body(ds, train_ratio)

\* ticket_sum = sum(main)
TicketSum(main) == SumSeq(main)

\* decades = len(set(n % 10 for n in main))
Decades_mod(main) == Cardinality({v % 10 : v \in Range(main)})
\* decades = len(set(n // 10 for n in main))
Decades(main) == Cardinality({v \div 10 : v \in Range(main)})

\* consecutive = sum(1 for i in range(4) if main[i+1] - main[i] == 1)
Consecutive(main) == Cardinality({i \in 1..4 : main[i + 1] - main[i] = 1})

\* odds = sum(1 for n in main if n % 2 == 1)
Odds(main) == Cardinality({q \in 1..Len(main) : main[q] % 2 = 1})

\* the high count of the constraint specification, |{n : n >= high_threshold}|;
\* validate_constraints does not compute it
Highs(main) == Cardinality({q \in 1..Len(main) : main[q] >= HighThreshold})

\* sum_ok
SumOk(main) == SumLo <= TicketSum(main) /\ TicketSum(main) <= SumHi
\* decades_ok
DecadesOk(main) == Decades(main) >= MinDecades
\* consec_ok
ConsecOk(main) == Consecutive(main) <= MaxConsecutive
\* odds_ok (assigned, never read)
OddsOk(main) == OddLo <= Odds(main) /\ Odds(main) <= OddHi

\* if sum_ok and decades_ok and consec_ok: passed += 1
ConstraintPass(main) == SumOk(main) /\ DecadesOk(main) /\ ConsecOk(main)

\* total counts the draws the loop checks, not len(draws)
constraints_body_checked(ds) ==
    LET n == Len(ds)
        checked == {k \in 0..(n - 1) : Len(MainOf(ds, k)) = MainCount}
        passed_idx == {k \in checked : ConstraintPass(sorted(MainOf(ds, k)))}
        passed == Cardinality(passed_idx)
        total == Cardinality(checked)
    IN  [kind |-> "result",
         total |-> total,
         passed |-> passed,
         pass_rate |-> Rate(passed, total),
         \* what the run computed for every draw it checked
         passed_idx |-> passed_idx,
         metrics |-> [k \in checked |->
                        LET main == sorted(MainOf(ds, k))
                        IN  [main |-> main,
                             ticket_sum |-> TicketSum(main),
                             decades |-> Decades(main),
                             consecutive |-> Consecutive(main),
                             odds |-> Odds(main)]]]
constraints_body(ds) ==
    LET n == Len(ds)
        checked == {k \in 0..(n - 1) : Len(MainOf(ds, k)) = MainCount}
        passed_idx == {k \in checked : ConstraintPass(sorted(MainOf(ds, k)))}
        passed == Cardinality(passed_idx)
        total == n
    IN  [kind |-> "result",
         total |-> total,
         passed |-> passed,
         pass_rate |-> Rate(passed, total),
         \* what the run computed for every draw it checked
         passed_idx |-> passed_idx,
         metrics |-> [k \in checked |->
                        LET main == sorted(MainOf(ds, k))
                        IN  [main |-> main,
                             ticket_sum |-> TicketSum(main),
                             decades |-> Decades(main),
                             consecutive |-> Consecutive(main),
                             odds |-> Odds(main)]]]

\* if len(draws) <= 100: return None
validate_constraints_le(ds) ==
    IF Len(ds) <= MinDraws THEN None ELSE constraints_body(ds)

validate_constraints(ds) ==
    IF Len(ds) < MinDraws THEN None ELSE constraints_body(ds)

\* main_nums = draw['main']; main_nums.sort(): the numbers of every draw
\* sorted in place
LeftByValidators_sorted(ds) == [i \in 1..Len(ds) |-> [ds[i] EXCEPT !.main = sorted(@)]]
\* the list a validator was given, as the call leaves it: the validators read
\* it with len(), slices, draw.get() and sorted(), each of which builds a new
\* list, and assign to nothing reachable from it
LeftByValidators(ds) == ds

-----------------------------------------------------------------------------
(* generate_newsletter.py *)

\* draws[:window] as indices
WindowSlice(n, window) == SliceIdx(n, 0, window)

generate_position_pools(ds, main_count, window) ==
    LET position_counters == PositionCounters(ds, WindowSlice(Len(ds), window), main_count)
    IN  [p \in 1..main_count |-> Nums(most_common(position_counters[p], PositionPoolSize))]

\* the truthy bonus values of the draws at idxs, in list order
BonusValues(ds, idxs) ==
    LET Truthy(k) == ds[k + 1].bonus # 0
        with == SelectSeq(idxs, Truthy)
    IN  List([j \in 1..Len(with) |-> ds[with[j] + 1].bonus])

generate_bonus_pool(ds, window, top_n) ==
    LET bonus_counter == Counter(BonusValues(ds, WindowSlice(Len(ds), window)))
    IN  Nums(most_common(bonus_counter, top_n))

-----------------------------------------------------------------------------
(* audit_pools.py *)

LOTTERIES ==
    [l4l |-> [main_range |-> 48, bonus_range |-> 18],
     la  |-> [main_range |-> 52, bonus_range |-> 10],
     pb  |-> [main_range |-> 69, bonus_range |-> 26],
     mm  |-> [main_range |-> 70, bonus_range |-> 25]]

LotteryKeys == {"l4l", "la", "pb", "mm"}

\* analyze_lottery takes the profile as its parameter info: next to the four
\* profiles of LOTTERIES it is applied to the profile of a lottery whose ranges
\* are the sizes of the pools it reports (top 8 per position, top 5 bonus)
MiniProfile == [main_range |-> 8, bonus_range |-> 5]
AuditKeys == LotteryKeys \cup {"mini"}
InfoOf(lottery_key) ==
    IF lottery_key = "mini" THEN MiniProfile ELSE LOTTERIES[lottery_key]

\* the pool sizes analyze_lottery tries for a position, and for the bonus
AuditPoolSizes == {6, 8, 10, 12}
AuditBonusSizes == {5, 8}

\* coverage = sum(...) / total_draws / pool_size * 100: coverage per pool number
Coverage_per_number(counter, total_draws, pool_size) ==
    [num |-> SumSeq(Counts(most_common(counter, pool_size))) * 100,
     den |-> total_draws * pool_size]
\* coverage = sum(c for _, c in counter.most_common(pool_size)) / total_draws * 100
Coverage(counter, total_draws, pool_size) ==
    [num |-> SumSeq(Counts(most_common(counter, pool_size))) * 100, den |-> total_draws]

\* improvement = coverage / random, with random = 100 / range
Improvement(coverage, range) ==
    [num |-> coverage.num * range, den |-> coverage.den * 100]

analyze_lottery(ds, info) ==
    LET total_draws == Len(ds)
        all == SliceIdx(total_draws, 0, total_draws)
        position_counters == PositionCounters(ds, all, MainCount)
        bonus_counter == Counter(BonusValues(ds, all))
        improvements == List([p \in 1..MainCount |->
            Improvement(Coverage(position_counters[p], total_draws, AuditPoolSize),
                        info.main_range)])
    IN  IF total_draws = 0 THEN [kind |-> "ZeroDivisionError"]
        ELSE
        [kind |-> "result",
         pools |-> [p \in 1..MainCount |->
                      sorted(Nums(most_common(position_counters[p], AuditPoolSize)))],
         improvements |-> improvements,
         bonus_pool |-> sorted(Nums(most_common(bonus_counter, AuditBonusSize))),
         bonus_improvement |-> Improvement(Coverage(bonus_counter, total_draws, AuditBonusSize),
                                           info.bonus_range),
         avg_improvement |-> [num |-> SumSeq([p \in 1..MainCount |-> improvements[p].num]),
                              den |-> total_draws * 100 * 5],
         \* what the run computed on the way
         position_counters |-> position_counters,
         bonus_counter |-> bonus_counter,
         coverage |-> [p \in 1..MainCount |-> [ps \in AuditPoolSizes |->
                          Coverage(position_counters[p], total_draws, ps)]],
         bonus_coverage |-> [ps \in AuditBonusSizes |->
                          Coverage(bonus_counter, total_draws, ps)]]

-----------------------------------------------------------------------------
(* The data directory *)

\* the files a script reads or writes: one data file per lottery, the
\* jackpots and the validation results
FileNames == LotteryKeys \cup {"jackpots", "validation_results"}

\* a file that does not exist, one that is not JSON, one holding draws
Missing == [kind |-> "missing"]
Corrupt == [kind |-> "corrupt"]
DrawsFile(ds) == [kind |-> "draws", draws |-> ds]

NoFiles == [f \in FileNames |-> Missing]
\* results = {}
NoResults == <<>>
\* no child process was started, no mail attempted
NoProcs == <<>>
NoMail == <<>>

-----------------------------------------------------------------------------
(* update_data.py *)

\* load_existing_draws: data.get('draws', []), [] when the file is missing or
\* cannot be read
load_existing_draws(file) == IF file.kind = "draws" THEN file.draws ELSE <<>>

\* the position at which list.sort(key=date, reverse=True) leaves x among the
\* entries already placed: behind every entry with a date >= its own
RECURSIVE InsertNewestFirst(_, _)
InsertNewestFirst(s, x) ==
    IF s = <<>> THEN <<x>>
    ELSE IF Head(s).date < x.date THEN <<x>> \o s
    ELSE <<Head(s)>> \o InsertNewestFirst(Tail(s), x)

\* the list left as insert(0, new_draw) made it: no sort
sort_newest_first_skipped(s) == s
\* existing_draws.sort(key=lambda x: x.get('date', ''), reverse=True): stable
RECURSIVE sort_newest_first(_)
sort_newest_first(s) ==
    IF s = <<>> THEN <<>>
    ELSE InsertNewestFirst(sort_newest_first(SubSeq(s, 1, Len(s) - 1)), s[Len(s)])

\* if new_draw in existing_draws: the whole draw compared, not its date
AlreadyStored_draw(new_draw, existing_draws) == new_draw \in Range(existing_draws)
\* if new_draw['date'] in existing_dates
AlreadyStored(new_draw, existing_draws) ==
    new_draw.date \in {existing_draws[j].date : j \in 1..Len(existing_draws)}

\* len(new_draw['main']) != len(set(new_draw['main']))
HasDuplicate(main) == Len(main) # Cardinality(Range(main))

\* new_draw = results[-1]: the last successful result
FirstResult_last(fetched) == fetched[Len(fetched)]
\* new_draw = results[0]
FirstResult(fetched) == fetched[1]

\* update_lottery that saves the list it loaded in the outcomes that add nothing
update_lottery_saves(file, fetched) ==
    LET existing_draws == load_existing_draws(file)
        new_draw == FirstResult(fetched)
    IN  IF fetched = <<>>
        THEN [ret |-> FALSE, report |-> "No data fetched from any source",
              file |-> DrawsFile(existing_draws)]
        ELSE IF AlreadyStored(new_draw, existing_draws)
        THEN [ret |-> TRUE, report |-> "Already have draw", file |-> DrawsFile(existing_draws)]
        ELSE IF HasDuplicate(new_draw.main)
        THEN [ret |-> FALSE, report |-> "Invalid draw - duplicate numbers detected",
              file |-> DrawsFile(existing_draws)]
        ELSE [ret |-> TRUE, report |-> "Added new draw",
              file |-> DrawsFile(sort_newest_first(<<new_draw>> \o existing_draws))]
\* update_lottery for the data file of the lottery and the results the
\* sources delivered, in the order of fetch_funcs: what it returns, what it
\* prints last, and the file it leaves
update_lottery(file, fetched) ==
    LET existing_draws == load_existing_draws(file)
        new_draw == FirstResult(fetched)
    IN  IF fetched = <<>>
        THEN [ret |-> FALSE, report |-> "No data fetched from any source", file |-> file]
        ELSE IF AlreadyStored(new_draw, existing_draws)
        THEN [ret |-> TRUE, report |-> "Already have draw", file |-> file]
        ELSE IF HasDuplicate(new_draw.main)
        THEN [ret |-> FALSE, report |-> "Invalid draw - duplicate numbers detected",
              file |-> file]
        ELSE [ret |-> TRUE, report |-> "Added new draw",
              file |-> DrawsFile(sort_newest_first(<<new_draw>> \o existing_draws))]

\* main: update_lottery('l4l'), ('pb'), ('mm'), ('la'), then update_jackpots()
\* pc names the call main makes next
UpdateOrder == <<"l4l", "pb", "mm", "la", "update_jackpots", "done">>
AfterUpdate(at) == UpdateOrder[(CHOOSE j \in 1..Len(UpdateOrder) : UpdateOrder[j] = at) + 1]

\* the draw of a date with the numbers of a ticket
DrawOf(d, t) == [date |-> d, main |-> Tickets[t].main, bonus |-> Tickets[t].bonus]

\* what a source can deliver: the latest draw or the one before it, its
\* numbers those of a ticket without or with a repeated number
FetchDraws == {DrawOf(d, t) : d \in {MaxDate - 1, MaxDate}, t \in {1, 13}}

\* the lists of n draws
RECURSIVE ListsOf(_, _)
ListsOf(S, n) ==
    IF n = 0 THEN {<<>>}
    ELSE {<<x>> \o l : x \in S, l \in ListsOf(S, n - 1)}

\* the fetch_funcs main passes to update_lottery, in list order
FetchFuncs ==
    [l4l |-> <<"fetch_l4l_ct_rss", "fetch_l4l_lotto_net">>,
     pb  |-> <<"fetch_pb_ny_api", "fetch_pb_ct_rss", "fetch_pb_iowa">>,
     mm  |-> <<"fetch_mm_ny_api", "fetch_mm_iowa">>,
     la  |-> <<"fetch_la_oklahoma", "fetch_la_iowa", "fetch_la_lottoamerica",
               "fetch_la_lotto_net">>]

\* what the calls of n fetch functions return, in call order: each a draw or
\* None, at most MaxResults of them a draw
FetchReturns(n) ==
    {l \in ListsOf(FetchDraws \cup {None}, n) :
        Cardinality({j \in 1..n : l[j] # None}) <= MaxResults}

\* for func in fetch_funcs: result = func(); if result: results.append(result)
fetch_results(returned) ==
    LET Delivered(result) == result # None
    IN  SelectSeq(returned, Delivered)

\* the stores an update can find: no file, an unreadable file, or draws of
\* pairwise distinct dates in the order the file lists them (update_lottery
\* leaves them newest first; a file from elsewhere may list them otherwise)
StoredDraws ==
    {l \in UNION {ListsOf({DrawOf(d, 2) : d \in 1..MaxDate}, n) : n \in 0..MaxDate} :
        \A i, j \in 1..Len(l) : i # j => l[i].date # l[j].date}
InitStores == {Missing, Corrupt} \cup {DrawsFile(l) : l \in StoredDraws}

InitStore ==
    /\ draws = <<>>
    /\ op = "none"
    /\ args = [call |-> "none"]
    /\ res = [kind |-> "none"]
    /\ \E store \in InitStores :
        files = [f \in FileNames |-> IF f \in LotteryKeys THEN store ELSE Missing]
    /\ pc = UpdateOrder[1]
    /\ results = NoResults
    /\ procs = NoProcs
    /\ outbox = NoMail

\* one call of update_lottery by main; main does not look at what it returns
UpdateLottery ==
    /\ pc \in LotteryKeys
    /\ \E returned \in FetchReturns(Len(FetchFuncs[pc])) :
        LET lottery_key == pc
            fetched == fetch_results(returned)
            out == update_lottery(files[lottery_key], fetched)
        IN  /\ op' = "update_lottery"
            /\ args' = [lottery_key |-> lottery_key, returned |-> returned,
                        results |-> fetched,
                        existing_draws |-> load_existing_draws(files[lottery_key])]
            /\ res' = [kind |-> "result", ret |-> out.ret, report |-> out.report]
            /\ files' = [files EXCEPT ![lottery_key] = out.file]
    /\ pc' = AfterUpdate(pc)
    /\ UNCHANGED <<draws, results, procs, outbox>>

\* update_jackpots writes jackpots.json and the run is complete
UpdateJackpots ==
    /\ pc = "update_jackpots"
    /\ op' = "update_jackpots"
    /\ args' = [call |-> "update_jackpots"]
    /\ res' = [kind |-> "result", ret |-> TRUE, report |-> "Jackpots saved"]
    /\ files' = [files EXCEPT !["jackpots"] = [kind |-> "jackpots"]]
    /\ pc' = AfterUpdate(pc)
    /\ UNCHANGED <<draws, results, procs, outbox>>

NextStore == UpdateLottery \/ UpdateJackpots

SpecStore == InitStore /\ [][NextStore]_vars

-----------------------------------------------------------------------------
(* validate_methods.py: main *)

\* for lottery in ['l4l', 'la', 'pb', 'mm'], then the save; pc names the
\* lottery of the next iteration, "raised" a run ended by an exception
MainOrder == <<"l4l", "la", "pb", "mm", "save", "done">>
AfterMain(at) == MainOrder[(CHOOSE j \in 1..Len(MainOrder) : MainOrder[j] = at) + 1]

max_nums == [l4l |-> 48, la |-> 52, pb |-> 69, mm |-> 70]

\* load_draws(lottery) for the first data file of the lottery that exists:
\* [] without a file, and json.load raises on a file that is not JSON
load_draws(file) == IF file.kind = "draws" THEN file.draws ELSE <<>>
LoadRaises(file) == file.kind = "corrupt"

\* a fraction in lowest terms
RECURSIVE GCD(_, _)
GCD(a, b) == IF b = 0 THEN a ELSE GCD(b, a % b)
Reduced(x) == LET g == GCD(x.num, x.den) IN [num |-> x.num \div g, den |-> x.den \div g]

\* a / b for fractions, b > 0
FracDiv(a, b) == Reduced([num |-> a.num * b.den, den |-> a.den * b.num])

\* random_baseline = 10 / max_nums[lottery]: the baseline of the hot pool
PositionBaseline_hot(lottery) == [num |-> HotBaselinePool, den |-> max_nums[lottery]]
\* random_baseline = 8 / max_nums[lottery]
PositionBaseline(lottery) == [num |-> BaselinePool, den |-> max_nums[lottery]]
\* hot_baseline = 10 / max_nums[lottery]
HotBaseline(lottery) == [num |-> HotBaselinePool, den |-> max_nums[lottery]]

\* total_possible_3combos = max_num * (max_num-1) * (max_num-2): the ordered triples
Choose3_ordered(max_num) == max_num * (max_num - 1) * (max_num - 2)
\* total_possible_3combos = (max_num * (max_num-1) * (max_num-2)) // 6
Choose3(max_num) == (max_num * (max_num - 1) * (max_num - 2)) \div 6

\* the improvement main computes for the proven combos
ComboImprovement(combo_result, lottery) ==
    LET proven_ratio == [num |-> combo_result.proven_combos_in_pool,
                         den |-> Choose3(max_nums[lottery])]
        expected_random == [num |-> CombosPerTicket * proven_ratio.num,
                            den |-> proven_ratio.den]
        actual_per_draw == Rate(combo_result.total_proven_hits, combo_result.test_size)
    IN  IF expected_random.num > 0 THEN FracDiv(actual_per_draw, expected_random)
        ELSE [num |-> 0, den |-> 1]

\* {**result, 'improvement': f"{improvement:.2f}x"}: the entry holds the
\* hundredths printed; improvement_exact is the value that was formatted
WithImprovement(result, improvement) ==
    [improvement |-> fmt2f(improvement), improvement_exact |-> improvement] @@ result

\* what one iteration of the loop adds to results: an entry for every
\* validator that returned a result
LotteryEntries(lottery, ds) ==
    LET pos_result == validate_position_frequency(ds, DefaultRatio, DefaultPoolSize)
        hot_result == validate_hot_numbers(ds, DefaultRatio, HotWindow, HotPoolSize)
        repeat_result == validate_repeat_pattern(ds)
        combo_result == validate_proven_combos(ds, DefaultRatio)
        const_result == validate_constraints(ds)
        entries ==
            [position |->
                IF pos_result = None THEN None
                ELSE WithImprovement(pos_result,
                        FracDiv(pos_result.accuracy, PositionBaseline(lottery))),
             hot |->
                IF hot_result = None THEN None
                ELSE WithImprovement(hot_result,
                        FracDiv(hot_result.accuracy, HotBaseline(lottery))),
             repeat |-> repeat_result,
             proven_combos |->
                IF combo_result = None THEN None
                ELSE WithImprovement(combo_result, ComboImprovement(combo_result, lottery)),
             constraints |-> const_result]
        kept == {name \in DOMAIN entries : entries[name] # None}
    IN  [key \in {<<lottery, name>> : name \in kept} |-> entries[key[2]]]

\* 49 tickets no two of which share more than one number: the ticket of
\* (x, y) holds in column c the number 7c + 1 + (x + c * y) mod 7
SpreadTicket(k) ==
    LET x == k % 7
        y == (k \div 7) % 7
    IN  [c \in 1..MainCount |-> 7 * (c - 1) + 1 + ((x + (c - 1) * y) % 7)]

\* a newest-first list of n draws over those tickets
SpreadDraws(n) ==
    [i \in 1..n |-> [date |-> n - i + 1, main |-> SpreadTicket(i - 1), bonus |-> (i % 10) + 1]]

\* the data files a run can find for a lottery
MainData ==
    [l4l |-> {Missing, Corrupt, DrawsFile(MakeDraws(MinDraws, 12, 0))},
     la  |-> {DrawsFile(MakeDraws(MaxSmall, 2, 0)), Corrupt,
              DrawsFile(MakeDraws(MinDraws + Below, 13, 1))},
     pb  |-> {DrawsFile(SpreadDraws(MinDraws)), Corrupt,
              DrawsFile(MakeDraws(MinDraws + Above, 3, 0))},
     mm  |-> {DrawsFile(<<>>), Corrupt, DrawsFile(MakeDraws(MinDraws, 6, 1))}]

InitMain ==
    /\ draws = <<>>
    /\ op = "none"
    /\ args = [call |-> "none"]
    /\ res = [kind |-> "none"]
    /\ \E l4l \in MainData.l4l, la \in MainData.la, pb \in MainData.pb, mm \in MainData.mm :
        files = [f \in FileNames |->
                    IF f = "l4l" THEN l4l ELSE IF f = "la" THEN la
                    ELSE IF f = "pb" THEN pb ELSE IF f = "mm" THEN mm ELSE Missing]
    /\ pc = MainOrder[1]
    /\ results = NoResults
    /\ procs = NoProcs
    /\ outbox = NoMail

\* load_draws raises: nothing in main catches it, the run ends with the
\* traceback and validation_results.json is not written
MainLoadRaises ==
    /\ pc \in LotteryKeys
    /\ LoadRaises(files[pc])
    /\ op' = "load_draws"
    /\ args' = [lottery |-> pc]
    /\ res' = [kind |-> "JSONDecodeError"]
    /\ pc' = "raised"
    /\ UNCHANGED <<draws, files, results, procs, outbox>>

\* if not draws: print "No data found"; continue
MainNoData ==
    /\ pc \in LotteryKeys
    /\ ~LoadRaises(files[pc])
    /\ load_draws(files[pc]) = <<>>
    /\ op' = "load_draws"
    /\ args' = [lottery |-> pc]
    /\ res' = [kind |-> "No data found"]
    /\ draws' = <<>>
    /\ pc' = AfterMain(pc)
    /\ UNCHANGED <<files, results, procs, outbox>>

\* the rest of an iteration: the five validators and their entries
MainAnalyse ==
    /\ pc \in LotteryKeys
    /\ ~LoadRaises(files[pc])
    /\ load_draws(files[pc]) # <<>>
    /\ op' = "analyse"
    /\ args' = [lottery |-> pc]
    /\ res' = [kind |-> "analysed"]
    /\ draws' = LeftByValidators(load_draws(files[pc]))
    /\ results' = LotteryEntries(pc, load_draws(files[pc])) @@ results
    /\ pc' = AfterMain(pc)
    /\ UNCHANGED <<files, procs, outbox>>

\* json.dump(results, f) into validation_results.json
MainSave ==
    /\ pc = "save"
    /\ op' = "save"
    /\ args' = [call |-> "save"]
    /\ res' = [kind |-> "saved"]
    /\ files' = [files EXCEPT !["validation_results"] = [kind |-> "results", results |-> results]]
    /\ pc' = AfterMain(pc)
    /\ UNCHANGED <<draws, results, procs, outbox>>

NextMain == MainLoadRaises \/ MainNoData \/ MainAnalyse \/ MainSave

SpecMain == InitMain /\ [][NextMain]_vars

-----------------------------------------------------------------------------
(* auto_publish.py *)

\* main: run_script("update_data.py"), run_script("generate_newsletter.py"),
\* run_script("upload_to_wordpress.py"); pc names the script of the
\* run_script call main is in, or is about to make
Scripts == <<"update_data.py", "generate_newsletter.py", "upload_to_wordpress.py">>
PublishOrder == Scripts \o <<"done">>
AfterScript(at) ==
    PublishOrder[(CHOOSE j \in 1..Len(PublishOrder) : PublishOrder[j] = at) + 1]

\* a script file that does not exist; one that exists and was not run; a
\* child process that runs; one that has exited
Absent == [status |-> "absent", starts |-> 0]
Ready == [status |-> "ready", starts |-> 0]
Running(proc) == [status |-> "running", starts |-> proc.starts + 1]
Exited(proc, returncode) ==
    [status |-> "exited", starts |-> proc.starts, returncode |-> returncode]

\* subprocess.Popen: main goes on to the next call while the child runs
WhileChildRuns_popen(at) == AfterScript(at)
\* subprocess.run waits for the child: main stays in the call until it exits
WhileChildRuns(at) == at

InitPublish ==
    /\ draws = <<>>
    /\ op = "none"
    /\ args = [call |-> "none"]
    /\ res = [kind |-> "none"]
    /\ files = NoFiles
    /\ pc = PublishOrder[1]
    /\ results = NoResults
    /\ procs \in [Range(Scripts) -> {Absent, Ready}]
    /\ outbox = NoMail

\* run_script: if not script_path.exists(): return False
ScriptNotFound ==
    /\ pc \in Range(Scripts)
    /\ procs[pc].status = "absent"
    /\ op' = "run_script"
    /\ args' = [script_name |-> pc]
    /\ res' = [kind |-> "result", ret |-> FALSE, report |-> "Script not found"]
    /\ pc' = AfterScript(pc)
    /\ UNCHANGED <<draws, files, results, procs, outbox>>

\* run_script: subprocess.run starts the child process
ScriptStarts ==
    /\ pc \in Range(Scripts)
    /\ procs[pc].status = "ready"
    /\ op' = "run_script"
    /\ args' = [script_name |-> pc]
    /\ res' = [kind |-> "running"]
    /\ procs' = [procs EXCEPT ![pc] = Running(@)]
    /\ pc' = WhileChildRuns(pc)
    /\ UNCHANGED <<draws, files, results, outbox>>

\* a child process exits; the run_script call that waits for it returns
\* result.returncode == 0, and main, which does not look at it, goes on
ScriptExits ==
    \* the child ends with success, an uncaught exception, or killed by a signal
    /\ \E script_name \in Range(Scripts), returncode \in {0, 1, -9} :
        /\ procs[script_name].status = "running"
        /\ procs' = [procs EXCEPT ![script_name] = Exited(@, returncode)]
        /\ op' = "run_script"
        /\ args' = [script_name |-> script_name]
        /\ res' = [kind |-> "result", ret |-> (returncode = 0), report |-> "exited"]
        /\ pc' = IF pc = script_name THEN AfterScript(pc) ELSE pc
    /\ UNCHANGED <<draws, files, results, outbox>>

NextPublish == ScriptNotFound \/ ScriptStarts \/ ScriptExits

SpecPublish == InitPublish /\ [][NextPublish]_vars

-----------------------------------------------------------------------------
(* generate_newsletter.py: get_next_draw_info *)

\* DRAW_SCHEDULES; days is None for the daily lottery, time 'h:mm PM'
DRAW_SCHEDULES ==
    [l4l |-> [days |-> None, schedule_text |-> "Daily",
              time |-> [hour |-> 9, minute |-> 38, pm |-> TRUE]],
     la  |-> [days |-> <<1, 3, 6>>, schedule_text |-> "Mon/Wed/Sat",
              time |-> [hour |-> 10, minute |-> 0, pm |-> TRUE]],
     pb  |-> [days |-> <<1, 3, 6>>, schedule_text |-> "Mon/Wed/Sat",
              time |-> [hour |-> 9, minute |-> 59, pm |-> TRUE]],
     mm  |-> [days |-> <<2, 5>>, schedule_text |-> "Tue/Fri",
              time |-> [hour |-> 10, minute |-> 0, pm |-> TRUE]]]

\* strftime('%A') of a date whose weekday() is weekday: Monday is 0, Sunday 6
strftime_A(weekday) ==
    <<"Monday", "Tuesday", "Wednesday", "Thursday", "Friday", "Saturday",
      "Sunday">>[weekday + 1]

\* draw_hour = int(time.split(':')[0]); if 'PM' in time and draw_hour != 12: += 12
DrawHour(time) == IF time.pm /\ time.hour # 12 THEN time.hour + 12 ELSE time.hour

\* days_until for the schedule of a lottery at weekday current_day, hour o'clock
DaysUntil(schedule, current_day, hour) ==
    IF schedule.days = None
    THEN IF hour < DrawHour(schedule.time) THEN 0 ELSE 1
    ELSE LET draw_days == Range(schedule.days)
             later == {d \in draw_days : d > current_day}
             MinOf(S) == CHOOSE x \in S : \A y \in S : x <= y
             next == IF later # {} THEN MinOf(later) - current_day
                     ELSE 7 - current_day + MinOf(draw_days)
         IN  IF current_day \in draw_days /\ hour < DrawHour(schedule.time) THEN 0
             ELSE next

\* get_next_draw_info(lottery) when the Central-Time clock shows weekday
\* current_day and hour: next_draw = now + timedelta(days=days_until), printed
\* with strftime('%A, %B %d')
get_next_draw_info(lottery, current_day, hour) ==
    LET schedule == DRAW_SCHEDULES[lottery]
        days_until == DaysUntil(schedule, current_day, hour)
        weekday == (current_day + days_until) % 7
    IN  [kind |-> "result",
         days_until |-> days_until,
         weekday |-> weekday,
         next_draw_day |-> strftime_A(weekday)]

InitClock ==
    /\ draws = <<>>
    /\ op = "none"
    /\ args = [call |-> "none"]
    /\ res = [kind |-> "none"]
    /\ files = NoFiles
    /\ pc = "idle"
    /\ results = NoResults
    /\ procs = NoProcs
    /\ outbox = NoMail

GetNextDrawInfo ==
    /\ op = "none"
    /\ \E lottery \in LotteryKeys, current_day \in 0..6, hour \in 0..23 :
        /\ op' = "get_next_draw_info"
        /\ args' = [lottery |-> lottery, weekday |-> current_day, hour |-> hour]
        /\ res' = get_next_draw_info(lottery, current_day, hour)
    /\ UNCHANGED <<draws, files, pc, results, procs, outbox>>

NextClock == GetNextDrawInfo

SpecClock == InitClock /\ [][NextClock]_vars

-----------------------------------------------------------------------------
(* send_to_subscribers.py *)

\* a text is the list of its character codes: the addresses "a@b", "A@b"
\* and "c@d"
Addr == [a |-> <<97, 64, 98>>, A |-> <<65, 64, 98>>, c |-> <<99, 64, 100>>]
\* a line of a file ends with "\n"
Line(text) == text \o <<10>>

\* str.lower() on ASCII text
lower(text) == [j \in 1..Len(text) |-> IF text[j] >= 65 /\ text[j] <= 90 THEN text[j] + 32
                                       ELSE text[j]]

\* str.strip()
strip(text) ==
    LET inked == {j \in 1..Len(text) : text[j] \notin {9, 10, 11, 12, 13, 32}}
    IN  IF inked = {} THEN <<>>
        ELSE SubSeq(text, CHOOSE j \in inked : \A k \in inked : j <= k,
                          CHOOSE j \in inked : \A k \in inked : k <= j)

LinesFile(lines) == [kind |-> "lines", lines |-> lines]

\* load_local_subscribers: the stripped, lowercased lines that hold an '@'
\* and are no comment
load_local_subscribers(file) ==
    IF file.kind # "lines" THEN {}
    ELSE {email \in {lower(strip(file.lines[j])) : j \in 1..Len(file.lines)} :
            \* if email and '@' in email and not email.startswith('#')
            email # <<>> /\ 64 \in Range(email) /\ email[1] # 35}

\* load_local_unsubscribed: the stripped, lowercased lines that hold an '@'
load_local_unsubscribed(file) ==
    IF file.kind # "lines" THEN {}
    ELSE {email \in {lower(strip(file.lines[j])) : j \in 1..Len(file.lines)} :
            \* if email and '@' in email
            email # <<>> /\ 64 \in Range(email)}

\* what the request to the subscriber API ends with: an exception
\* ([kind |-> "error"]), or a JSON object with 'success' and 'subscribers'
ApiJson(success, subscribers) ==
    [kind |-> "json", success |-> success, subscribers |-> subscribers]

\* fetch_website_subscribers: set(data['subscribers']) if data.get('success')
\* and data.get('subscribers'), set() otherwise and after any exception
fetch_website_subscribers(response) ==
    IF response.kind = "json" /\ response.success /\ response.subscribers # <<>>
    THEN Range(response.subscribers)
    ELSE {}

\* get_all_subscribers: (local | website) - unsubscribed
get_all_subscribers(subscribers_file, response, unsubscribed_file) ==
    LET local == load_local_subscribers(subscribers_file)
        website == fetch_website_subscribers(response)
        all_subs == local \cup website
        unsubscribed == load_local_unsubscribed(unsubscribed_file)
    IN  all_subs \ unsubscribed

\* a < b for texts, as Python compares str
RECURSIVE TextLess(_, _)
TextLess(a, b) ==
    IF b = <<>> THEN FALSE
    ELSE IF a = <<>> THEN TRUE
    ELSE IF Head(a) # Head(b) THEN Head(a) < Head(b)
    ELSE TextLess(Tail(a), Tail(b))

\* sorted(subscribers)
RECURSIVE SortedTexts(_)
SortedTexts(S) ==
    IF S = {} THEN <<>>
    ELSE LET first == CHOOSE a \in S : \A b \in S \ {a} : TextLess(a, b)
         IN  <<first>> \o SortedTexts(S \ {first})

SendFiles == {"subscribers.txt", "unsubscribed.txt", "latest.html"}

\* the files and responses a run can find: lines with an address, a comment
\* ("#c@d"), a line without '@' ("ab"), an empty line, an address padded
\* with blanks (" A@b "), a last line without "\n"
SubscriberFiles ==
    {Missing,
     LinesFile(<<Line(Addr.a), Line(<<35>> \o Addr.c), Line(<<97, 98>>), Line(<<>>)>>),
     LinesFile(<<Line(<<32>> \o Addr.A \o <<32>>), Addr.c>>)}
UnsubscribedFiles ==
    {Missing,
     LinesFile(<<Line(Addr.a)>>),
     LinesFile(<<Line(<<32>> \o Addr.A \o <<32>>), Line(<<35>> \o Addr.c)>>),
     LinesFile(<<Line(Addr.c), Line(<<>>)>>)}
ApiResponses ==
    {[kind |-> "error"], ApiJson(FALSE, <<Addr.a>>), ApiJson(TRUE, <<>>),
     ApiJson(TRUE, <<Addr.a>>), ApiJson(TRUE, <<Addr.A, Addr.c>>), ApiJson(TRUE, <<Addr.c>>)}

\* main; pc is "load" before the newsletter and the subscribers are loaded,
\* "send" inside the loop over sorted(subscribers)
InitSend ==
    /\ draws = <<>>
    /\ op = "none"
    /\ args = [call |-> "none"]
    /\ res = [kind |-> "none"]
    /\ \E subscribers_file \in SubscriberFiles, unsubscribed_file \in UnsubscribedFiles,
          newsletter \in {Missing, [kind |-> "html"]} :
        files = [f \in SendFiles |->
                    IF f = "subscribers.txt" THEN subscribers_file
                    ELSE IF f = "unsubscribed.txt" THEN unsubscribed_file
                    ELSE newsletter]
    /\ pc = "load"
    /\ results = NoResults
    /\ procs = NoProcs
    /\ outbox = NoMail

\* html, subject = load_newsletter(); if not html: return
NoNewsletter ==
    /\ pc = "load"
    /\ files["latest.html"] = Missing
    /\ op' = "load_newsletter"
    /\ args' = [call |-> "load_newsletter"]
    /\ res' = [kind |-> "No newsletter found"]
    /\ pc' = "done"
    /\ UNCHANGED <<draws, files, results, procs, outbox>>

\* subscribers = get_all_subscribers(); if not subscribers: return
GetAllSubscribers ==
    /\ pc = "load"
    /\ files["latest.html"] # Missing
    /\ \E response \in ApiResponses :
        LET active == get_all_subscribers(files["subscribers.txt"], response,
                                          files["unsubscribed.txt"])
        IN  /\ op' = "get_all_subscribers"
            /\ args' = [response |-> response]
            /\ res' = [kind |-> "result", active |-> active]
            /\ pc' = IF active = {} THEN "done" ELSE "send"
    /\ UNCHANGED <<draws, files, results, procs, outbox>>

\* one iteration of for email in sorted(subscribers): send_newsletter(email, ...)
\* sends the mail, fails on the way, or finds no credentials configured
SendNewsletter ==
    /\ pc = "send"
    /\ \E outcome \in {"sent", "failed", "no credentials"} :
        LET subscribers == SortedTexts(res.active)
            email == subscribers[Len(outbox) + 1]
        IN  /\ outbox' = Append(outbox, [email |-> email, outcome |-> outcome])
            /\ pc' = IF Len(outbox) + 1 = Len(subscribers) THEN "done" ELSE "send"
    /\ op' = "send_newsletter"
    /\ UNCHANGED <<draws, args, res, files, results, procs>>

NextSend == NoNewsletter \/ GetAllSubscribers \/ SendNewsletter

SpecSend == InitSend /\ [][NextSend]_vars

-----------------------------------------------------------------------------
(* The state machine *)

\* the parameter values the calls are made with
PoolSizes == {2, PositionPoolSize}
Windows == {0, HotWindow, 90, 99}
PoolWindows == {1, HotWindow, DefaultWindow}
TopNs == {1, BonusTopN}

Init ==
    /\ draws \in {MakeDraws(n, m, off) : n \in Lens, m \in Cycles, off \in 0..MaxOff}
                \cup {MakeMiniDraws(n) : n \in {MinDraws}}
                \cup {MakeEmptyDraws(n) : n \in {MinDraws}}
    /\ op = "none"
    /\ args = [call |-> "none"]
    /\ res = [kind |-> "none"]
    /\ files = NoFiles
    /\ pc = "idle"
    /\ results = NoResults
    /\ procs = NoProcs
    /\ outbox = NoMail

ValidatePositionFrequency ==
    /\ op = "none"
    /\ \E train_ratio \in Ratios, pool_size \in PoolSizes :
        /\ op' = "validate_position_frequency"
        /\ args' = [train_ratio |-> train_ratio, pool_size |-> pool_size]
        /\ res' = validate_position_frequency(draws, train_ratio, pool_size)
    /\ draws' = LeftByValidators(draws)
    /\ UNCHANGED <<files, pc, results, procs, outbox>>

ValidateHotNumbers ==
    /\ op = "none"
    /\ \E train_ratio \in Ratios, window \in Windows :
        /\ op' = "validate_hot_numbers"
        /\ args' = [train_ratio |-> train_ratio, window |-> window, pool_size |-> HotPoolSize]
        /\ res' = validate_hot_numbers(draws, train_ratio, window, HotPoolSize)
    /\ draws' = LeftByValidators(draws)
    /\ UNCHANGED <<files, pc, results, procs, outbox>>

ValidateRepeatPattern ==
    /\ op = "none"
    /\ op' = "validate_repeat_pattern"
    /\ args' = [call |-> "validate_repeat_pattern"]
    /\ res' = validate_repeat_pattern(draws)
    /\ draws' = LeftByValidators(draws)
    /\ UNCHANGED <<files, pc, results, procs, outbox>>

ValidateProvenCombos ==
    /\ op = "none"
    /\ \E train_ratio \in Ratios :
        /\ op' = "validate_proven_combos"
        /\ args' = [train_ratio |-> train_ratio]
        /\ res' = validate_proven_combos(draws, train_ratio)
    /\ draws' = LeftByValidators(draws)
    /\ UNCHANGED <<files, pc, results, procs, outbox>>

ValidateConstraints ==
    /\ op = "none"
    /\ op' = "validate_constraints"
    /\ args' = [call |-> "validate_constraints"]
    /\ res' = validate_constraints(draws)
    /\ draws' = LeftByValidators(draws)
    /\ UNCHANGED <<files, pc, results, procs, outbox>>

GeneratePools ==
    /\ op = "none"
    /\ \E window \in PoolWindows, top_n \in TopNs :
        /\ op' = "generate_pools"
        /\ args' = [window |-> window, top_n |-> top_n]
        /\ res' = [kind |-> "result",
                   position_pools |-> generate_position_pools(draws, MainCount, window),
                   bonus_pool |-> generate_bonus_pool(draws, window, top_n)]
    /\ UNCHANGED <<draws, files, pc, results, procs, outbox>>

AnalyzeLottery ==
    /\ op = "none"
    /\ \E lottery_key \in AuditKeys :
        /\ op' = "analyze_lottery"
        /\ args' = [lottery_key |-> lottery_key]
        /\ res' = analyze_lottery(draws, InfoOf(lottery_key))
    /\ UNCHANGED <<draws, files, pc, results, procs, outbox>>

Next ==
    \/ ValidatePositionFrequency
    \/ ValidateHotNumbers
    \/ ValidateRepeatPattern
    \/ ValidateProvenCombos
    \/ ValidateConstraints
    \/ GeneratePools
    \/ AnalyzeLottery

Spec == Init /\ [][Next]_vars

-----------------------------------------------------------------------------
(* Properties *)

Returned == res.kind = "result"

SplitValidators == {"validate_position_frequency", "validate_proven_combos"}
PoolValidators == SplitValidators \cup {"validate_hot_numbers"}
Validators == PoolValidators \cup {"validate_repeat_pattern", "validate_constraints"}

\* a >= b for fractions with positive denominators
FracGeq(a, b) == a.num * b.den >= b.num * a.den

\* floor(len * ratio) for a ratio num/den
Floor(n, ratio) == (n * ratio.num) \div ratio.den

\* C1: in validate_position_frequency, validate_hot_numbers and
\* validate_proven_combos the pool that scores the test draw at index i is
\* built only from draws at indices greater than i (strictly older draws).
C1_Causality ==
    (op \in PoolValidators /\ Returned) =>
        \A i \in DOMAIN res.uses : \A k \in res.uses[i] : k > i

\* a hot-numbers run that scored a draw other than the newest against a
\* non-empty history
C1_Witness ==
    /\ op = "validate_hot_numbers"
    /\ Returned
    /\ \E i \in DOMAIN res.uses : i > 0 /\ res.uses[i] # {}

\* C2: with split = floor(len * train_ratio) the train slice is exactly the
\* draws at positions >= split, the test slice exactly those at positions
\* < split; the slices are disjoint and their sizes add up to len.
C2_SplitPartition ==
    (op \in SplitValidators /\ Returned) =>
        LET n == Len(draws)
            split == Floor(n, args.train_ratio)
        IN  /\ res.train_idx = {k \in 0..(n - 1) : k >= split}
            /\ res.test_idx = {k \in 0..(n - 1) : k < split}
            /\ res.train_idx \cap res.test_idx = {}
            /\ res.train_size = Cardinality(res.train_idx)
            /\ res.test_size = Cardinality(res.test_idx)
            /\ res.train_size + res.test_size = n

\* a split that leaves draws on both sides
C2_Witness ==
    /\ op \in SplitValidators
    /\ Returned
    /\ res.train_size > 0
    /\ res.test_size > 0

\* C3: every date in the train slice is less than or equal to every date in
\* the test slice.
C3_TrainNotAfterTest ==
    (op \in SplitValidators /\ Returned) =>
        \A t \in res.train_idx : \A u \in res.test_idx :
            draws[t + 1].date <= draws[u + 1].date

\* a proven-combos split with more than one draw on each side
C3_Witness ==
    /\ op = "validate_proven_combos"
    /\ Returned
    /\ Cardinality(res.train_idx) > 1
    /\ Cardinality(res.test_idx) > 1

\* C4: with the default train_ratio 0.8, validate_position_frequency trains on
\* floor(0.8 * len) draws and tests on the remaining len - floor(0.8 * len).
C4_TrainsOnEightyPercent ==
    (op = "validate_position_frequency" /\ Returned /\ args.train_ratio = DefaultRatio) =>
        /\ res.train_size = Floor(Len(draws), DefaultRatio)
        /\ res.test_size = Len(draws) - Floor(Len(draws), DefaultRatio)

\* C5: every test draw i that validate_hot_numbers scores is scored against
\* the pool of exactly the window draws at indices i+1 .. i+window, and a test
\* draw with fewer than window older draws is not scored.
C5_HotWindowExact ==
    (op = "validate_hot_numbers" /\ Returned) =>
        LET n == Len(draws)
            window == args.window
        IN  /\ res.scored \subseteq res.test_idx
            /\ \A i \in res.scored :
                /\ res.history[i] = [j \in 1..window |-> i + j]
                /\ res.uses[i] = (i + 1)..(i + window)
                /\ \A k \in res.uses[i] : k <= n - 1
            /\ \A i \in res.test_idx : (n - 1 - i < window) => i \notin res.scored

\* a run with a non-empty window where some test draws were scored and the
\* loop stopped before others
C5_Witness ==
    /\ op = "validate_hot_numbers"
    /\ Returned
    /\ args.window > 0
    /\ res.scored # {}
    /\ res.test_idx \ res.scored # {}

\* C6: each of the five validators returns None below 100 draws and a result
\* record from 100 draws on.
C6_MinSampleGuard ==
    (op \in Validators) =>
        /\ (Len(draws) < MinDraws => res = None)
        /\ (Len(draws) >= MinDraws => Returned)

\* the constraint validator at exactly 100 draws
C6_Witness ==
    /\ op = "validate_constraints"
    /\ Len(draws) = MinDraws
    /\ Returned

\* the high-count rule of the constraint specification
HighsOk(main) == HighLo <= Highs(main) /\ Highs(main) <= HighHi

\* C7: a ticket is counted as passed only if all five rules hold: sum range,
\* minimum decades, maximum consecutive pairs, odd-count range, high-count range.
C7_AllFiveRules ==
    (op = "validate_constraints" /\ Returned) =>
        \A k \in res.passed_idx :
            LET main == res.metrics[k].main
            IN  /\ SumOk(main)
                /\ DecadesOk(main)
                /\ ConsecOk(main)
                /\ OddsOk(main)
                /\ HighsOk(main)

ExampleTicket == <<3, 14, 22, 31, 44>>

\* C8 as stated: for the ticket [3,14,22,31,44] the computations yield sum 114,
\* 4 decades, 0 consecutive pairs, 2 odd numbers, 2 high numbers.
C8_ExampleAsStated ==
    (op = "validate_constraints" /\ Returned) =>
        \A k \in DOMAIN res.metrics :
            res.metrics[k].main = ExampleTicket =>
                /\ res.metrics[k].ticket_sum = 114
                /\ res.metrics[k].decades = 4
                /\ res.metrics[k].consecutive = 0
                /\ res.metrics[k].odds = 2
                /\ Highs(res.metrics[k].main) = 2

\* C8 amended: for the ticket [3,14,22,31,44] the computations yield sum 114,
\* 5 decades ({0,1,2,3,4}), 0 consecutive pairs, 2 odd numbers, 2 high numbers.
C8_ExampleMetrics ==
    (op = "validate_constraints" /\ Returned) =>
        \A k \in DOMAIN res.metrics :
            res.metrics[k].main = ExampleTicket =>
                /\ res.metrics[k].ticket_sum = 114
                /\ res.metrics[k].decades = 5
                /\ res.metrics[k].consecutive = 0
                /\ res.metrics[k].odds = 2
                /\ Highs(res.metrics[k].main) = 2

\* a constraint run over a list that holds the ticket, once in sorted order
\* and once as drawn in another order
C8_Witness ==
    /\ op = "validate_constraints"
    /\ Returned
    /\ \E k \in DOMAIN res.metrics :
        res.metrics[k].main = ExampleTicket /\ MainOf(draws, k) = ExampleTicket
    /\ \E k \in DOMAIN res.metrics :
        res.metrics[k].main = ExampleTicket /\ MainOf(draws, k) # ExampleTicket

\* the largest main number of the draws (the main range of Lucky for Life)
MainMax == 48

\* for every number 1..MainMax how often it occurs in a list of tallied
\* values and where it occurs first (0: nowhere)
TallyKeys(values) ==
    List([v \in 1..MainMax |->
        LET occ == {j \in 1..Len(values) : values[j] = v}
        IN  [cnt |-> Cardinality(occ),
             first |-> IF occ = {} THEN 0
                       ELSE CHOOSE j \in occ : \A k \in occ : j <= k]])

\* a ranks ahead of b: larger count, or equal count and a wins the tie (by
\* smaller value, or by being tallied first)
Ahead(keys, a, b, byValue) ==
    \/ keys[a].cnt > keys[b].cnt
    \/ /\ keys[a].cnt = keys[b].cnt
       /\ IF byValue THEN a < b ELSE keys[a].first < keys[b].first

\* the set pool holds the top size numbers of the tally
TopSet(pool, keys, size, byValue) ==
    LET tallied == {v \in 1..MainMax : keys[v].cnt > 0}
    IN  /\ pool \subseteq tallied
        /\ Cardinality(pool) <= size
        /\ Cardinality(pool) < size => pool = tallied
        /\ \A a, b \in tallied :
            (Ahead(keys, a, b, byValue) /\ b \in pool) => a \in pool

\* the list pool holds the top size numbers of the tally, best first
TopList(pool, keys, size, byValue) ==
    /\ TopSet(Range(pool), keys, size, byValue)
    /\ \A i, j \in 1..Len(pool) :
        /\ i # j => pool[i] # pool[j]
        /\ Ahead(keys, pool[i], pool[j], byValue) => i < j

\* the pools of the last call are the top numbers of their tallies, ties
\* decided by value (byValue) or by first occurrence
PoolsRanked(byValue) ==
    /\ op = "generate_pools" =>
        LET window == WindowSlice(Len(draws), args.window)
        IN  /\ \A p \in 1..MainCount :
                TopList(res.position_pools[p],
                        TallyKeys(PositionValues(draws, window, p)),
                        PositionPoolSize, byValue)
            /\ TopList(res.bonus_pool, TallyKeys(BonusValues(draws, window)),
                       args.top_n, byValue)
    /\ (op = "validate_position_frequency" /\ Returned) =>
        LET train_draws == SliceIdx(Len(draws), Floor(Len(draws), args.train_ratio), Len(draws))
        IN  \A p \in 1..MainCount :
                TopSet(res.pools[p], TallyKeys(PositionValues(draws, train_draws, p)),
                       args.pool_size, byValue)

C10_CoverageMonotone ==
    (op = "analyze_lottery" /\ Returned) =>
        /\ \A p \in 1..MainCount : \A P1, P2 \in AuditPoolSizes :
            P1 < P2 => FracGeq(res.coverage[p][P2], res.coverage[p][P1])
        /\ \A P1, P2 \in AuditBonusSizes :
            P1 < P2 => FracGeq(res.bonus_coverage[P2], res.bonus_coverage[P1])
        /\ \A P1 \in 1..12 :
            FracGeq(Coverage(res.position_counters[1], Len(draws), P1 + 1),
                    Coverage(res.position_counters[1], Len(draws), P1))

\* an audit where a position's top-8 pool covers strictly more than its top-6
\* pool and the bonus top-8 strictly more than the bonus top-5
C10_Witness ==
    /\ op = "analyze_lottery"
    /\ Returned
    /\ \E p \in 1..MainCount :
        ~FracGeq(res.coverage[p][6], res.coverage[p][8])
    /\ ~FracGeq(res.bonus_coverage[5], res.bonus_coverage[8])

\* a = b for fractions with positive denominators
FracEq(a, b) == a.num * b.den = b.num * a.den

\* the improvement ratio of the specification:
\* coverage / (poolSize / rangeMax * 100)
improvementRatio(coverage, poolSize, rangeMax) ==
    [num |-> coverage.num * rangeMax, den |-> coverage.den * poolSize * 100]

\* every draw holds five main numbers of 1..range
MainsWithin(range) ==
    \A k \in 0..(Len(draws) - 1) :
        Len(MainOf(draws, k)) = MainCount /\ Range(MainOf(draws, k)) \subseteq 1..range

C12_BaselineScalesWithPool ==
    (op = "analyze_lottery" /\ Returned) =>
        LET info == InfoOf(args.lottery_key)
        IN  /\ \A p \in 1..MainCount :
                FracEq(res.improvements[p],
                       improvementRatio(res.coverage[p][AuditPoolSize], AuditPoolSize,
                                        info.main_range))
            /\ FracEq(res.bonus_improvement,
                      improvementRatio(res.bonus_coverage[AuditBonusSize], AuditBonusSize,
                                       info.bonus_range))
            /\ fmt2f(Improvement([num |-> 41, den |-> 1], LOTTERIES["l4l"].main_range)) = 246

\* C13: for every sequence of at least 100 draws the repeat rate returned by
\* validate_repeat_pattern lies in [0, 1]: the repeated numbers summed over all
\* consecutive (draw, previous draw) pairs never exceed the distinct main
\* numbers summed over the same draws.
C13_RepeatRateInUnitInterval ==
    (op = "validate_repeat_pattern" /\ Len(draws) >= MinDraws) =>
        /\ Returned
        /\ 0 <= res.repeats
        /\ res.repeats <= res.total_numbers
        /\ res.total_numbers =
                SumSeq([i \in 1..(Len(draws) - 1) |-> Cardinality(Range(draws[i].main))])
        /\ FracGeq(res.repeat_rate, [num |-> 0, den |-> 1])
        /\ FracGeq([num |-> 1, den |-> 1], res.repeat_rate)

\* a repeat-pattern run over draws some of which repeat numbers of the draw
\* before and some of which do not
C13_Witness ==
    /\ op = "validate_repeat_pattern"
    /\ Returned
    /\ 0 < res.repeats
    /\ res.repeats < res.total_numbers

\* C14: in validate_proven_combos, when every test draw has exactly 5 main
\* numbers, total_possible_combos == test_size * C(5,3) == 10 * test_size,
\* however many proven combos the training slice produced.
C14_TenCombosPerTestDraw ==
    (op = "validate_proven_combos" /\ Returned
        /\ \A k \in res.test_idx : Len(MainOf(draws, k)) = MainCount) =>
        /\ res.total_possible_combos = CombosPerTicket * res.test_size
        /\ CombosPerTicket = (5 * 4 * 3) \div 6

\* a proven-combos run with the default split whose test draws all have 5
\* numbers, with a proven pool that is not empty
C14_Witness ==
    /\ op = "validate_proven_combos"
    /\ Returned
    /\ args.train_ratio = DefaultRatio
    /\ \A k \in res.test_idx : Len(MainOf(draws, k)) = MainCount
    /\ res.test_size > 1
    /\ res.proven_combos_in_pool > 0

\* the 3-number subsets of a set of numbers, as ascending triples
Subsets3(M) == {t \in M \X M \X M : t[1] < t[2] /\ t[2] < t[3]}

\* C15: the proven-combo pool contains a 3-number subset if and only if that
\* subset (as a set of numbers, whatever the order of the numbers in a draw)
\* occurs in at least minOccurrence = 2 draws of the training slice; no combo
\* is counted from a test-slice draw.
C15_ProvenIffInTwoTrainDraws ==
    (op = "validate_proven_combos" /\ Returned) =>
        LET mains == {Range(MainOf(draws, k)) : k \in 0..(Len(draws) - 1)}
            subsets == UNION {Subsets3(M) : M \in mains}
            Occurs(t) == Cardinality({k \in res.train_idx :
                            {t[1], t[2], t[3]} \subseteq Range(MainOf(draws, k))})
        IN  /\ res.proven_combos \subseteq subsets
            /\ \A t \in subsets : t \in res.proven_combos <=> Occurs(t) >= MinOccurrence

\* the draws of a data file have pairwise distinct dates
DatesDistinct(file) ==
    file.kind = "draws" =>
        \A i, j \in 1..Len(file.draws) : i # j => file.draws[i].date # file.draws[j].date

\* C17: starting from a store whose draws have pairwise distinct dates, after
\* any sequence of update_lottery calls, with any fetched results, no two
\* stored draws share a date.
C17_DatesUnique == \A lottery_key \in LotteryKeys : DatesDistinct(files[lottery_key])

\* update_lottery was given a draw that differs from the stored draw of the same
\* date, and the store holds more than one draw
C17_Witness ==
    /\ op = "update_lottery"
    /\ Len(args.existing_draws) > 1
    /\ args.results # <<>>
    /\ \E j \in 1..Len(args.existing_draws) :
        /\ args.existing_draws[j].date = args.results[1].date
        /\ args.existing_draws[j] # args.results[1]
        /\ ~HasDuplicate(args.results[1].main)
    /\ files[args.lottery_key] = DrawsFile(args.existing_draws)

\* C16: a draw whose main numbers contain a duplicate value is excluded from
\* the draw sequence (never stored and never analysed by a validator), it is
\* reported, and processing of the remaining draws and lotteries continues.
C16_DuplicateDrawsExcluded ==
    /\ \A lottery_key \in LotteryKeys :
        \A d \in Range(load_existing_draws(files[lottery_key])) : ~HasDuplicate(d.main)
    /\ (op = "update_lottery" /\ args.results # <<>>
            /\ HasDuplicate(args.results[1].main)) =>
        /\ res.report = "Invalid draw - duplicate numbers detected"
        /\ pc = AfterUpdate(args.lottery_key)
    /\ (op \in SplitValidators /\ Returned) =>
        \A k \in res.train_idx \cup res.test_idx : ~HasDuplicate(MainOf(draws, k))
    /\ (op = "validate_constraints" /\ Returned) =>
        \A k \in DOMAIN res.metrics : ~HasDuplicate(MainOf(draws, k))

\* the results validation_results.json holds
Saved == IF files["validation_results"].kind = "results"
         THEN files["validation_results"].results ELSE NoResults

\* C18: if analysing one lottery fails unexpectedly, the failure is caught at
\* the lottery boundary and the remaining lotteries of l4l, la, pb, mm are
\* still analysed and their results still recorded in the same run.
C18_LotteryIsolation ==
    /\ pc # "raised"
    /\ pc \in {"done", "raised"} =>
        \A lottery \in LotteryKeys :
            (~LoadRaises(files[lottery]) /\ Len(load_draws(files[lottery])) >= MinDraws) =>
                \A name \in {"position", "hot", "repeat", "proven_combos", "constraints"} :
                    <<lottery, name>> \in DOMAIN Saved

\* |100 * x - hundredths| <= 1/2: hundredths is x to two decimals
ToTwoDecimals(hundredths, x) ==
    LET diff == x.den * (100 * (x.num \div x.den) - hundredths) + 100 * (x.num % x.den)
    IN  2 * diff <= x.den /\ -2 * diff <= x.den

\* C19: the position-frequency improvement reported for a lottery equals
\* (hits / total) / (poolSize / mainMax), where total counts every sorted slot
\* (0..4) of every test-slice draw, hits counts the slots whose value is in
\* the pool built for that same slot index from the train slice, and poolSize
\* is the size actually used to build the pools (8).  The report prints the
\* value with two decimals.
C19_PositionImprovement ==
    \A lottery \in LotteryKeys : <<lottery, "position">> \in DOMAIN results =>
        LET e == results[<<lottery, "position">>]
            ds == load_draws(files[lottery])
            n == Len(ds)
            split == Floor(n, DefaultRatio)
            train_draws == SliceIdx(n, split, n)
            Slots(k) == 1..Min(Len(MainOf(ds, k)), MainCount)
            total == SumSeq([j \in 1..split |-> Cardinality(Slots(j - 1))])
            hits == SumSeq([j \in 1..split |->
                        Cardinality({p \in Slots(j - 1) :
                            sorted(MainOf(ds, j - 1))[p] \in e.pools[p]})])
        IN  /\ \A p \in 1..MainCount :
                TopSet(e.pools[p], TallyKeys(PositionValues(ds, train_draws, p)),
                       BaselinePool, FALSE)
            /\ e.total = total
            /\ e.hits = hits
            /\ total > 0 =>
                Reduced(e.improvement_exact) =
                    Reduced([num |-> hits * max_nums[lottery], den |-> total * BaselinePool])
            /\ total = 0 => e.improvement_exact.num = 0
            /\ ToTwoDecimals(e.improvement, e.improvement_exact)

\* a finished run that recorded for two lotteries with different ranges a
\* position improvement with hits and misses
C19_Witness ==
    /\ pc = "done"
    /\ \E a, b \in LotteryKeys :
        /\ max_nums[a] # max_nums[b]
        /\ \A lottery \in {a, b} :
            /\ <<lottery, "position">> \in DOMAIN Saved
            /\ 0 < Saved[<<lottery, "position">>].hits
            /\ Saved[<<lottery, "position">>].hits < Saved[<<lottery, "position">>].total
            /\ Saved[<<lottery, "position">>].improvement > 0

\* C20: the proven-combo improvement reported for a lottery equals
\* (totalHits / testSize) / expectedPerTicket with expectedPerTicket =
\* C(5,3) * |provenCombos| / C(mainMax,3), C(mainMax,3) = mainMax * (mainMax-1)
\* * (mainMax-2) / 6; with an empty proven pool the improvement is reported as
\* 0.  The report prints the value with two decimals.
C20_ComboImprovement ==
    \A lottery \in LotteryKeys : <<lottery, "proven_combos">> \in DOMAIN results =>
        LET e == results[<<lottery, "proven_combos">>]
            mainMax == max_nums[lottery]
            provenCombos == Cardinality(e.proven_combos)
            testSize == Cardinality(e.test_idx)
            totalHits == e.total_proven_hits
            triples == mainMax * (mainMax - 1) * (mainMax - 2)
        IN  /\ triples % 6 = 0
            /\ provenCombos = e.proven_combos_in_pool
            /\ testSize = e.test_size
            /\ provenCombos > 0 =>
                \* (totalHits / testSize) / (10 * provenCombos / (triples / 6))
                /\ testSize > 0
                /\ Reduced(e.improvement_exact) =
                        Reduced([num |-> totalHits * (triples \div 6),
                                 den |-> testSize * CombosPerTicket * provenCombos])
            /\ provenCombos = 0 => (e.improvement_exact.num = 0 /\ e.improvement = 0)
            /\ ToTwoDecimals(e.improvement, e.improvement_exact)

\* a finished run that recorded a proven-combo improvement above 0 for one
\* lottery and the improvement 0 of an empty proven pool for another
C20_Witness ==
    /\ pc = "done"
    /\ \E a, b \in LotteryKeys :
        /\ <<a, "proven_combos">> \in DOMAIN Saved
        /\ <<b, "proven_combos">> \in DOMAIN Saved
        /\ Saved[<<a, "proven_combos">>].proven_combos_in_pool > 0
        /\ Saved[<<a, "proven_combos">>].improvement > 0
        /\ Saved[<<b, "proven_combos">>].proven_combos_in_pool = 0
        /\ Saved[<<b, "proven_combos">>].test_size > 0
        /\ Saved[<<b, "proven_combos">>].improvement = 0


\* for all k: date[k] >= date[k+1]
SortedNewestFirst(ds) == \A k \in 1..(Len(ds) - 1) : ds[k].date >= ds[k + 1].date

\* C22: after every update_lottery call that adds a draw the stored sequence
\* is ordered newest-first by date (date[k] >= date[k+1] for all k), wherever
\* the date of the new draw falls among the stored ones and even if the
\* sequence stored before was not sorted.
C22_SortedAfterAdd ==
    (op = "update_lottery" /\ res.report = "Added new draw") =>
        /\ files[args.lottery_key].kind = "draws"
        /\ Range(files[args.lottery_key].draws) =
                Range(args.existing_draws) \cup {args.results[1]}
        /\ SortedNewestFirst(files[args.lottery_key].draws)

\* a draw was added to a store that was not sorted, its date between the dates
\* of two stored draws
C22_Witness ==
    /\ op = "update_lottery"
    /\ res.report = "Added new draw"
    /\ ~SortedNewestFirst(args.existing_draws)
    /\ \E i, j \in 1..Len(args.existing_draws) :
        /\ args.existing_draws[i].date < args.results[1].date
        /\ args.results[1].date < args.existing_draws[j].date

\* the calls that returned a result, by position in fetch_funcs
DeliveredAt(returned) == {j \in 1..Len(returned) : returned[j] # None}
\* the position of the earliest of them
EarliestAt(returned) ==
    CHOOSE j \in DeliveredAt(returned) : \A k \in DeliveredAt(returned) : j <= k

C24_SaveOnlyOnAdd ==
    [][op' = "update_lottery" =>
        LET lottery_key == args'.lottery_key
            existing_draws == load_existing_draws(files[lottery_key])
            new_draw == args'.results[1]
            adds == /\ args'.results # <<>>
                    /\ ~AlreadyStored(new_draw, existing_draws)
                    /\ ~HasDuplicate(new_draw.main)
        IN  /\ \A f \in FileNames \ {lottery_key} : files'[f] = files[f]
            /\ args'.results = <<>> => res'.ret = FALSE
            /\ (args'.results # <<>> /\ AlreadyStored(new_draw, existing_draws))
                    => res'.ret = TRUE
            /\ (args'.results # <<>> /\ ~AlreadyStored(new_draw, existing_draws)
                    /\ HasDuplicate(new_draw.main)) => res'.ret = FALSE
            /\ ~adds => files'[lottery_key] = files[lottery_key]
            /\ adds => /\ res'.ret = TRUE
                       /\ files'[lottery_key].kind = "draws"
                       /\ Len(files'[lottery_key].draws) = Len(existing_draws) + 1
    ]_vars

\* a draw with a repeated number was refused for a lottery that has no data
\* file, and there still is none
C24_Witness ==
    /\ op = "update_lottery"
    /\ res.report = "Invalid draw - duplicate numbers detected"
    /\ res.ret = FALSE
    /\ files[args.lottery_key] = Missing


\* the names of the entries of a lottery in results
EntryNames == {"position", "hot", "repeat", "proven_combos", "constraints"}

FiveNumberDraws == \A i \in 1..Len(draws) : Len(draws[i].main) = MainCount

\* C28: with the default parameters (train_ratio 0.8, window 20), for every
\* sequence of at least 100 five-number draws validate_hot_numbers scores
\* every draw of the test region: the break for insufficient history never
\* fires, total = 5 * test_size and test_size is the number of draws scored.
C28_HotScoresWholeTestRegion ==
    (/\ op = "validate_hot_numbers"
     /\ args.train_ratio = DefaultRatio
     /\ args.window = HotWindow
     /\ Len(draws) >= MinDraws
     /\ FiveNumberDraws) =>
        /\ Returned
        /\ res.scored = res.test_idx
        /\ res.test_size = Cardinality(res.scored)
        /\ res.total = MainCount * res.test_size
        /\ \A i \in res.test_idx : ~HotBreak(Len(draws), i, HotWindow)

\* the call was made with the defaults on exactly 100 five-number draws: the
\* last test draw has exactly 20 older draws behind it
C28_Witness ==
    /\ op = "validate_hot_numbers"
    /\ Returned
    /\ args.train_ratio = DefaultRatio
    /\ args.window = HotWindow
    /\ Len(draws) = MinDraws
    /\ FiveNumberDraws
    /\ res.test_size = 80
    /\ Len(draws) - res.test_size = HotWindow

\* C29: in validate_constraints the pass rate is passed / len(draws) with
\* 0 <= passed <= len(draws); a draw whose main list does not hold exactly 5
\* numbers is never counted as passed but is counted in the denominator.
C29_PassRateOverAllDraws ==
    (op = "validate_constraints" /\ Returned) =>
        LET five == {k \in 0..(Len(draws) - 1) : Len(MainOf(draws, k)) = MainCount}
        IN  /\ res.total = Len(draws)
            /\ res.pass_rate = Rate(res.passed, Len(draws))
            /\ 0 <= res.passed /\ res.passed <= Len(draws)
            /\ res.passed = Cardinality(res.passed_idx)
            /\ res.passed_idx \subseteq five
            /\ res.passed <= Cardinality(five)

\* some draws of the list passed and some do not hold five numbers
C29_Witness ==
    /\ op = "validate_constraints"
    /\ Returned
    /\ res.passed > 0
    /\ \E i \in 1..Len(draws) : Len(draws[i].main) # MainCount
    /\ res.passed < Len(draws)

Zero == [num |-> 0, den |-> 1]
\* a rate that was computed without dividing by zero, and is 0 when its
\* denominator is
RateOk(rate, denominator) == rate.den > 0 /\ (denominator = 0 => rate = Zero)

\* C30: no validator divides by zero: for every sequence of at least 100 draws
\* and every train_ratio in [0, 1], empty train or test slices and draws
\* without main numbers included, each validator returns a result whose rates
\* are 0 when their denominator is 0, and the combo improvement main computes
\* from the result is 0 when the expected random value is 0.
C30_NoDivisionByZero ==
    (op \in Validators /\ Len(draws) >= MinDraws) =>
        /\ Returned
        /\ op = "validate_position_frequency" => RateOk(res.accuracy, res.total)
        /\ op = "validate_hot_numbers" => RateOk(res.accuracy, res.total)
        /\ op = "validate_repeat_pattern" => RateOk(res.repeat_rate, res.total_numbers)
        /\ op = "validate_constraints" => RateOk(res.pass_rate, res.total)
        /\ op = "validate_proven_combos" =>
            /\ RateOk(res.draw_rate, res.test_size)
            /\ RateOk(res.combo_hit_rate, res.total_possible_combos)
            /\ \A lottery \in LotteryKeys :
                /\ RateOk(ComboImprovement(res, lottery), res.proven_combos_in_pool)
                /\ RateOk(ComboImprovement(res, lottery), res.test_size)

\* the test slice is not empty but none of its draws holds a number
C30_Witness ==
    /\ op = "validate_position_frequency"
    /\ Returned
    /\ res.test_size > 0
    /\ res.train_size > 0
    /\ res.total = 0
    /\ res.accuracy = Zero


\* the position of a script in the pipeline
StepOf(script_name) == CHOOSE j \in 1..Len(Scripts) : Scripts[j] = script_name

\* C25: the auto-publish pipeline runs its three steps strictly in the order
\* update data, generate newsletter, upload: a step starts only after the
\* process of the step before it has exited, and a step is started at most
\* once in a run.
C25_StepsInOrder ==
    pc \in Range(PublishOrder) =>
        /\ \A script_name \in Range(Scripts) : procs[script_name].starts <= 1
        /\ \A a, b \in Range(Scripts) :
            (StepOf(a) < StepOf(b) /\ procs[b].starts > 0) =>
                procs[a].status \in {"exited", "absent"}
        /\ Cardinality({a \in Range(Scripts) : procs[a].status = "running"}) <= 1
        /\ \A a \in Range(Scripts) :
            procs[a].status = "running" => pc = a
        /\ pc = "done" =>
            \A a \in Range(Scripts) : procs[a].status \in {"exited", "absent"}

\* the upload runs after the update has failed and the newsletter was generated
C25_Witness ==
    /\ pc = "upload_to_wordpress.py"
    /\ procs["upload_to_wordpress.py"].status = "running"
    /\ procs["update_data.py"].status = "exited"
    /\ procs["update_data.py"].returncode = 1
    /\ procs["generate_newsletter.py"].status = "exited"
    /\ procs["generate_newsletter.py"].returncode = 0


\* the weekdays a schedule text names
NamedDays(schedule_text) ==
    IF schedule_text = "Mon/Wed/Sat" THEN {"Monday", "Wednesday", "Saturday"}
    ELSE IF schedule_text = "Tue/Fri" THEN {"Tuesday", "Friday"}
    ELSE {strftime_A(weekday) : weekday \in 0..6}

\* C27: for the lotteries with fixed draw days the next-draw date computed by
\* get_next_draw_info falls on a weekday its schedule text names, at every
\* Central-Time weekday and hour: Monday, Wednesday or Saturday for Lotto
\* America and Powerball, Tuesday or Friday for Mega Millions.
C27_NextDrawOnScheduledDay ==
    (op = "get_next_draw_info" /\ args.lottery \in {"la", "pb", "mm"}) =>
        res.next_draw_day \in NamedDays(DRAW_SCHEDULES[args.lottery].schedule_text)


\* C26: unsubscribed addresses are excluded from delivery: no address whose
\* lowercase form is in the unsubscribed list is in the set get_all_subscribers
\* returns, whether it came from the local subscriber file or from the website
\* subscriber API, so the sender never attempts to mail it.
C26_UnsubscribedExcluded ==
    LET unsubscribed == load_local_unsubscribed(files["unsubscribed.txt"])
    IN  /\ (pc \in {"send", "done"} /\ res.kind = "result") =>
                \A email \in res.active : lower(email) \notin unsubscribed
        /\ \A j \in 1..Len(outbox) : lower(outbox[j].email) \notin unsubscribed

=============================================================================
